---- MODULE Spec2Model ----
(***************************************************************************)
(* A model of papandreou/netlify-cms, file                                 *)
(*   src/components/EditorWidgets/Markdown/serializers/index.js            *)
(* which holds the serializers of the Markdown widget (markdownToRemark,   *)
(* remarkToMarkdown, markdownToSlate, slateToMarkdown) and, appended to    *)
(* them, the entryDraft reducer.                                           *)
(*                                                                         *)
(* Strings are sequences of character codes (naturals), so that the two    *)
(* regular-expression rewrites, base64 and UTF-8 are computed as the code  *)
(* computes them.  Trees are records.                                      *)
(***************************************************************************)
EXTENDS Integers, Sequences, FiniteSets, TLC

\* ------------------------------------------------------------------------
\* Characters and strings
\* ------------------------------------------------------------------------

\* The printable ASCII characters, code 32 first.
Ascii ==
  << " ", "!", "dquote", "#", "$", "%", "&", "'", "(", ")", "*", "+", ",", "-", ".", "/",
     "0", "1", "2", "3", "4", "5", "6", "7", "8", "9", ":", ";", "<", "=", ">", "?",
     "@", "A", "B", "C", "D", "E", "F", "G", "H", "I", "J", "K", "L", "M", "N", "O",
     "P", "Q", "R", "S", "T", "U", "V", "W", "X", "Y", "Z", "[", "backslash", "]", "^", "_",
     "backtick", "a", "b", "c", "d", "e", "f", "g", "h", "i", "j", "k", "l", "m", "n", "o",
     "p", "q", "r", "s", "t", "u", "v", "w", "x", "y", "z", "{", "|", "}", "~" >>

\* The code of a character written as a one-character string.
Ord(c) == IF c = "\n" THEN 10 ELSE 31 + (CHOOSE i \in 1..Len(Ascii) : Ascii[i] = c)

\* A function on 1..n as a sequence.
Tuple(f) == SubSeq(f, 1, Len(f))

\* The string (sequence of codes) spelled by a tuple of one-character strings.
Str(t) == Tuple([i \in 1..Len(t) |-> Ord(t[i])])

\* U+FFFD, what a UTF-8 decoder puts in place of a malformed sequence.
Replacement == Ord("~") + 65407

\* The whitespace class of JavaScript regular expressions, which lodash's
\* trimEnd shares.
IsSpace(c) ==
  \/ c \in {9, 10, 11, 12, 13, 32, 160, 5760, 8232, 8233, 8239, 8287, 12288, 65279}
  \/ (c >= 8192 /\ c <= 8202)

\* [A-Za-z0-9_], the \w of a regular expression.
IsWord(c) ==
  \/ (c >= 48 /\ c <= 57)
  \/ (c >= 65 /\ c <= 90)
  \/ (c >= 97 /\ c <= 122)
  \/ c = 95

IsLetter(c) == (c >= 65 /\ c <= 90) \/ (c >= 97 /\ c <= 122)

Drop(s, n) == SubSeq(s, n + 1, Len(s))

Take(s, n) == SubSeq(s, 1, n)

\* s holds p at position i (1-based).
StartsAt(s, i, p) ==
  /\ i >= 1
  /\ i + Len(p) - 1 <= Len(s)
  /\ \A k \in 1..Len(p) : s[i + k - 1] = p[k]

RECURSIVE Concat(_)
Concat(ss) == IF ss = <<>> THEN <<>> ELSE Head(ss) \o Concat(Tail(ss))

\* The least index >= i where s holds p, or 0.
IndexOf(s, p, i) ==
  LET hits == {k \in i..Len(s) : StartsAt(s, k, p)}
  IN  IF hits = {} THEN 0 ELSE CHOOSE k \in hits : \A j \in hits : k <= j

\* String.prototype.trim's two halves.
TrimStart(s) ==
  LET keep == {i \in 1..Len(s) : ~IsSpace(s[i])}
  IN  IF keep = {} THEN <<>>
      ELSE SubSeq(s, CHOOSE i \in keep : \A j \in keep : i <= j, Len(s))

\* lodash trimEnd(string): the string without its trailing whitespace.
trimEnd(s) ==
  LET keep == {i \in 1..Len(s) : ~IsSpace(s[i])}
  IN  IF keep = {} THEN <<>>
      ELSE SubSeq(s, 1, CHOOSE i \in keep : \A j \in keep : i >= j)

Trim(s) == TrimStart(trimEnd(s))

\* The whitespace s starts with, and the whitespace it ends with once that
\* is taken off.
LeadingSpace(s) == Take(s, Len(s) - Len(TrimStart(s)))

TrailingSpace(s) == Drop(TrimStart(s), Len(Trim(s)))

\* ------------------------------------------------------------------------
\* UTF-8 and base64, as the platform computes them
\* ------------------------------------------------------------------------

\* A result that is either a string or a thrown exception.
Ok(v) == [ok |-> TRUE, value |-> v]

Threw == [ok |-> FALSE, value |-> <<>>]

\* The UTF-8 bytes of one code point.
Utf8OfChar(c) ==
  IF c < 128 THEN <<c>>
  ELSE IF c < 2048 THEN <<192 + (c \div 64), 128 + (c % 64)>>
  ELSE IF c < 65536 THEN
    <<224 + (c \div 4096), 128 + ((c \div 64) % 64), 128 + (c % 64)>>
  ELSE <<240 + (c \div 262144), 128 + ((c \div 4096) % 64),
         128 + ((c \div 64) % 64), 128 + (c % 64)>>

\* new Buffer(str, 'utf-8'): the bytes of a string.
Utf8Encode(s) == Concat([i \in 1..Len(s) |-> Utf8OfChar(s[i])])

IsCont(b) == b >= 128 /\ b <= 191

\* The bounds of the byte that may follow lead byte b.
SecondLow(b) == IF b = 224 THEN 160 ELSE IF b = 240 THEN 144 ELSE 128

SecondHigh(b) == IF b = 237 THEN 159 ELSE IF b = 244 THEN 143 ELSE 191

\* One step of Buffer.prototype.toString(): the code point read at the head
\* of bs and the number of bytes it used; a malformed sequence reads as
\* U+FFFD and uses its maximal well-formed part.
Utf8Step(bs) ==
  LET b   == bs[1]
      n   == Len(bs)
      sec == n >= 2 /\ bs[2] >= SecondLow(b) /\ bs[2] <= SecondHigh(b)
      bad(k) == [char |-> Replacement, used |-> k]
  IN  IF b < 128 THEN [char |-> b, used |-> 1]
      ELSE IF b >= 194 /\ b <= 223 THEN
        IF n >= 2 /\ IsCont(bs[2])
        THEN [char |-> (b - 192) * 64 + (bs[2] - 128), used |-> 2]
        ELSE bad(1)
      ELSE IF b >= 224 /\ b <= 239 THEN
        IF ~sec THEN bad(1)
        ELSE IF ~(n >= 3 /\ IsCont(bs[3])) THEN bad(2)
        ELSE [char |-> (b - 224) * 4096 + (bs[2] - 128) * 64 + (bs[3] - 128), used |-> 3]
      ELSE IF b >= 240 /\ b <= 244 THEN
        IF ~sec THEN bad(1)
        ELSE IF ~(n >= 3 /\ IsCont(bs[3])) THEN bad(2)
        ELSE IF ~(n >= 4 /\ IsCont(bs[4])) THEN bad(3)
        ELSE [char |-> (b - 240) * 262144 + (bs[2] - 128) * 4096
                        + (bs[3] - 128) * 64 + (bs[4] - 128),
              used |-> 4]
      ELSE bad(1)

RECURSIVE Utf8Decode(_)
Utf8Decode(bs) ==
  IF bs = <<>> THEN <<>>
  ELSE LET st == Utf8Step(bs) IN <<st.char>> \o Utf8Decode(Drop(bs, st.used))

\* The character of base64 digit n (0..63).
B64Char(n) ==
  IF n < 26 THEN 65 + n
  ELSE IF n < 52 THEN 97 + (n - 26)
  ELSE IF n < 62 THEN 48 + (n - 52)
  ELSE IF n = 62 THEN 43 ELSE 47

\* The digit of a base64 character, or -1.
B64Val(c) ==
  IF c >= 65 /\ c <= 90 THEN c - 65
  ELSE IF c >= 97 /\ c <= 122 THEN c - 97 + 26
  ELSE IF c >= 48 /\ c <= 57 THEN c - 48 + 52
  ELSE IF c = 43 THEN 62
  ELSE IF c = 47 THEN 63
  ELSE -1

\* Node's decoder also reads the URL-safe digits.
B64ValNode(c) == IF c = 45 THEN 62 ELSE IF c = 95 THEN 63 ELSE B64Val(c)

\* The padding character.
Pad == Ord("=")

RECURSIVE B64OfBytes(_)
B64OfBytes(bs) ==
  IF bs = <<>> THEN <<>>
  ELSE IF Len(bs) = 1 THEN
    <<B64Char(bs[1] \div 4), B64Char((bs[1] % 4) * 16), Pad, Pad>>
  ELSE IF Len(bs) = 2 THEN
    <<B64Char(bs[1] \div 4), B64Char((bs[1] % 4) * 16 + (bs[2] \div 16)),
      B64Char((bs[2] % 16) * 4), Pad>>
  ELSE
    <<B64Char(bs[1] \div 4), B64Char((bs[1] % 4) * 16 + (bs[2] \div 16)),
      B64Char((bs[2] % 16) * 4 + (bs[3] \div 64)), B64Char(bs[3] % 64)>>
    \o B64OfBytes(Drop(bs, 3))

\* The bytes of a sequence of base64 digits; a last group of one digit gives
\* no byte.
RECURSIVE BytesOfDigits(_)
BytesOfDigits(ds) ==
  IF Len(ds) < 2 THEN <<>>
  ELSE IF Len(ds) = 2 THEN <<ds[1] * 4 + (ds[2] \div 16)>>
  ELSE IF Len(ds) = 3 THEN
    <<ds[1] * 4 + (ds[2] \div 16), (ds[2] % 16) * 16 + (ds[3] \div 4)>>
  ELSE
    <<ds[1] * 4 + (ds[2] \div 16), (ds[2] % 16) * 16 + (ds[3] \div 4),
      (ds[3] % 4) * 64 + ds[4]>>
    \o BytesOfDigits(Drop(ds, 4))

\* The two platforms the module runs on: the test runner (no window) and the
\* browser (window.btoa and window.atob exist).
Envs == {"node", "browser"}

\* window.btoa: throws on a character above U+00FF.
Btoa(s) ==
  IF \E i \in 1..Len(s) : s[i] > 255 THEN Threw ELSE Ok(B64OfBytes(s))

base64Encode(env, s) ==
  IF env = "browser" THEN Btoa(s) ELSE Ok(B64OfBytes(Utf8Encode(s)))

\* window.atob: the forgiving-base64 decode; throws on a character outside
\* the alphabet and on a length of 1 modulo 4.
Atob(s) ==
  LET nows == SelectSeq(s, LAMBDA c : c \notin {9, 10, 12, 13, 32})
      n    == Len(nows)
      data == IF (n % 4) = 0 /\ n >= 2 /\ nows[n] = Pad /\ nows[n - 1] = Pad
                THEN Take(nows, n - 2)
              ELSE IF (n % 4) = 0 /\ n >= 1 /\ nows[n] = Pad THEN Take(nows, n - 1)
              ELSE nows
  IN  IF (Len(data) % 4) = 1 \/ \E i \in 1..Len(data) : B64Val(data[i]) < 0
      THEN Threw
      ELSE Ok(BytesOfDigits([i \in 1..Len(data) |-> B64Val(data[i])]))

\* new Buffer(str, 'base64'): stops at the first '=', skips every character
\* that is no base64 digit, never throws.
BufferFromBase64(s) ==
  LET stop  == IndexOf(s, <<Pad>>, 1)
      upto  == IF stop = 0 THEN s ELSE Take(s, stop - 1)
      legal == SelectSeq(upto, LAMBDA c : B64ValNode(c) >= 0)
  IN  BytesOfDigits([i \in 1..Len(legal) |-> B64ValNode(legal[i])])

base64Decode(env, s) ==
  IF env = "browser" THEN Atob(s) ELSE Ok(Utf8Decode(BufferFromBase64(s)))

\* ------------------------------------------------------------------------
\* The two rewrites of the component block
\* ------------------------------------------------------------------------

Newline == Ord("\n")

Space == Ord(" ")

\* "::: ", what both patterns start with, and ":::\n", what closes a block.
Fence == Str(<<":", ":", ":", " ">>)

CloseFence == Str(<<":", ":", ":", "\n">>)

\* The line terminators of a JavaScript regular expression.
IsLineEnd(c) == c \in {10, 13, 8232, 8233}

\* ^ under the m flag.
AtLineStart(s, i) == i = 1 \/ IsLineEnd(s[i - 1])

NoMatch == [found |-> FALSE]

\* /^::: ([^\n]+)\n([\s\S]+?\n)?:::\n/m tried at position i: the name, the
\* body (the second group, its newline included, empty when the group took
\* no part) and the position after the match.
BlockMatchAt(s, i) ==
  IF ~(AtLineStart(s, i) /\ StartsAt(s, i, Fence)) THEN NoMatch
  ELSE
    LET nl == IndexOf(s, <<Newline>>, i + 4)
    IN  IF nl = 0 \/ nl = i + 4 THEN NoMatch
        ELSE
          LET p  == nl + 1
              \* the body is lazy: the shortest k >= 1 with "\n:::\n" after it
              ks == {k \in 1..(Len(s) - p) :
                       s[p + k] = Newline /\ StartsAt(s, p + k + 1, CloseFence)}
          IN  IF ks # {} THEN
                LET k == CHOOSE a \in ks : \A b \in ks : a <= b
                IN  [found |-> TRUE, name |-> SubSeq(s, i + 4, nl - 1),
                     body |-> SubSeq(s, p, p + k), end |-> p + k + 5]
              ELSE IF StartsAt(s, p, CloseFence) THEN
                [found |-> TRUE, name |-> SubSeq(s, i + 4, nl - 1),
                 body |-> <<>>, end |-> p + 4]
              ELSE NoMatch

\* markdown.replace(<the pattern above>, ...) of markdownToRemark, from
\* position i on: every block becomes "::: name base64(body)"; the newline
\* that closed the block is not written back.
RECURSIVE EncodeBlocksFrom(_, _, _)
EncodeBlocksFrom(env, s, i) ==
  IF i > Len(s) THEN Ok(<<>>)
  ELSE
    LET m == BlockMatchAt(s, i)
    IN  IF m.found THEN
          LET b64  == base64Encode(env, m.body)
              rest == EncodeBlocksFrom(env, s, m.end)
          IN  IF ~b64.ok \/ ~rest.ok THEN Threw
              ELSE Ok(Fence \o m.name \o <<Space>> \o b64.value \o rest.value)
        ELSE
          LET rest == EncodeBlocksFrom(env, s, i + 1)
          IN  IF rest.ok THEN Ok(<<s[i]>> \o rest.value) ELSE Threw

EncodeBlocks(env, s) == EncodeBlocksFrom(env, s, 1)

\* /^::: (\S+) (\S*)$/m tried at position i: the two words and the position
\* of the line's end.
LineMatchAt(s, i) ==
  IF ~(AtLineStart(s, i) /\ StartsAt(s, i, Fence)) THEN NoMatch
  ELSE
    LET ends == {k \in (i + 4)..Len(s) : IsLineEnd(s[k])}
        eol  == IF ends = {} THEN Len(s) + 1
                ELSE CHOOSE a \in ends : \A b \in ends : a <= b
        rest == SubSeq(s, i + 4, eol - 1)
        gaps == {k \in 1..Len(rest) : IsSpace(rest[k])}
    IN  IF Cardinality(gaps) # 1 THEN NoMatch
        ELSE
          LET sp == CHOOSE k \in gaps : TRUE
          IN  IF sp = 1 \/ rest[sp] # Space THEN NoMatch
              ELSE [found |-> TRUE, name |-> Take(rest, sp - 1),
                    data |-> Drop(rest, sp), end |-> eol]

\* markdown.replace(<the pattern above>, ...) of remarkToMarkdown, from
\* position i on: every such line becomes "::: name\n" decoded ":::\n".
RECURSIVE RestoreBlocksFrom(_, _, _)
RestoreBlocksFrom(env, s, i) ==
  IF i > Len(s) THEN Ok(<<>>)
  ELSE
    LET m == LineMatchAt(s, i)
    IN  IF m.found THEN
          LET dec  == base64Decode(env, m.data)
              rest == RestoreBlocksFrom(env, s, m.end)
          IN  IF ~dec.ok \/ ~rest.ok THEN Threw
              ELSE Ok(Fence \o m.name \o <<Newline>> \o dec.value
                      \o CloseFence \o rest.value)
        ELSE
          LET rest == RestoreBlocksFrom(env, s, i + 1)
          IN  IF rest.ok THEN Ok(<<s[i]>> \o rest.value) ELSE Threw

RestoreBlocks(env, s) == RestoreBlocksFrom(env, s, 1)

\* ------------------------------------------------------------------------
\* Syntax trees (MDAST) and the Markdown parser
\* ------------------------------------------------------------------------

\* A node of either tree.  Every node has the four fields so that nodes of
\* different types compare: value is a leaf's string (an image's alt text, a
\* component's encoded arguments), url a link's or image's target (a
\* component's tag name), children a container's nodes.
Node(type, value, url, children) ==
  [type |-> type, value |-> value, url |-> url, children |-> Tuple(children)]

Text(v) == Node("text", v, <<>>, <<>>)

Html(v) == Node("html", v, <<>>, <<>>)

Parent(type, children) == Node(type, <<>>, <<>>, children)

MarkTypes == {"strong", "emphasis", "delete"}

Star == Ord("*")

Underscore == Ord("_")

Tilde == Ord("~")

Tick == Ord("backtick")

Backslash == Ord("backslash")

\* The characters the parser's escape tokenizer unescapes and the escaping
\* pass escapes.
Escapable == {Star, Underscore, Tilde, Tick, Ord("["), Backslash}

\* The character at i, or 0 past the end (charAt's empty string).
CharAt(s, i) == IF i >= 1 /\ i <= Len(s) THEN s[i] ELSE 0

\* Append a node to a list of nodes, merging a text node into a text node
\* before it (the parser's mergeable text nodes).
AddNode(nodes, n) ==
  IF nodes # <<>> /\ n.type = "text" /\ nodes[Len(nodes)].type = "text"
  THEN [nodes EXCEPT ![Len(nodes)].value = @ \o n.value]
  ELSE Append(nodes, n)

\* The length of the inline HTML tag s starts with (an opening or closing tag
\* without attributes), or 0.
HtmlTagLen(s) ==
  LET from == IF CharAt(s, 2) = Ord("/") THEN 3 ELSE 2
      gt   == IndexOf(s, <<Ord(">")>>, from)
  IN  IF CharAt(s, 1) = Ord("<") /\ IsLetter(CharAt(s, from)) /\ gt # 0
         /\ \A k \in from..(gt - 1) : IsLetter(s[k]) \/ (s[k] >= 48 /\ s[k] <= 57)
      THEN gt ELSE 0

\* The three entity references the bounded inputs use, and the character
\* each stands for.
Entities ==
  { [ref |-> Str(<<"&", "l", "t", ";">>), char |-> Ord("<")],
    [ref |-> Str(<<"&", "g", "t", ";">>), char |-> Ord(">")],
    [ref |-> Str(<<"&", "a", "m", "p", ";">>), char |-> Ord("&")] }

\* The text tokenizer of remark-parse decodes an entity reference.
decodingTextTokenizer(e) == <<e.char>>

\* remarkAllowHtmlEntities: the text tokenizer that leaves an entity
\* reference as it is written.
remarkAllowHtmlEntities(e) == e.ref

\* The position of the "**" or "__" that closes the strong opened at 1..2,
\* or 0: the first pair not followed by a third marker.
StrongClose(s) ==
  LET m  == s[1]
      ks == {k \in 3..(Len(s) - 1) :
               /\ s[k] = m /\ s[k + 1] = m /\ CharAt(s, k + 2) # m
               /\ s[k - 1] # Backslash}
  IN  IF ks = {} THEN 0
      ELSE LET k == CHOOSE a \in ks : \A b \in ks : a <= b
           IN  IF Trim(SubSeq(s, 3, k - 1)) = <<>> THEN 0 ELSE k

\* The position of the marker that closes the emphasis opened at 1, or 0;
\* the scan of the emphasis tokenizer from position i, prev the character
\* read before.
RECURSIVE EmphasisClose(_, _, _)
EmphasisClose(s, i, prev) ==
  LET m == s[1] IN
  IF i > Len(s) THEN 0
  ELSE IF s[i] = m THEN
    IF CharAt(s, i + 1) # m THEN
      IF Trim(SubSeq(s, 2, i - 1)) = <<>> \/ prev = m THEN 0
      ELSE IF m = Underscore /\ IsWord(CharAt(s, i + 1))
        THEN EmphasisClose(s, i + 1, CharAt(s, i + 1))
      ELSE i
    ELSE EmphasisClose(s, i + 2, m)
  ELSE IF s[i] = Backslash THEN EmphasisClose(s, i + 2, CharAt(s, i + 1))
  ELSE EmphasisClose(s, i + 1, s[i])

\* The position of the second "~" of the pair that closes the deletion
\* opened at 1..2, or 0.
DeleteClose(s) ==
  LET ks == {k \in 4..Len(s) :
               /\ s[k] = Tilde /\ s[k - 1] = Tilde
               /\ (k - 2 < 3 \/ ~IsSpace(s[k - 2]))}
  IN  IF ks = {} THEN 0 ELSE CHOOSE a \in ks : \A b \in ks : a <= b

\* The number of backticks s starts with.
TickRun(s) ==
  LET n == {k \in 0..Len(s) : \A j \in 1..k : s[j] = Tick}
  IN  CHOOSE a \in n : \A b \in n : a >= b

\* The position of the run of backticks that closes the inline code opened
\* by the n backticks s starts with, or 0.
CodeClose(s, n) ==
  LET ks == {k \in (n + 1)..(Len(s) - n + 1) :
               /\ \A j \in 0..(n - 1) : s[k + j] = Tick
               /\ s[k - 1] # Tick
               /\ CharAt(s, k + n) # Tick}
  IN  IF ks = {} THEN 0 ELSE CHOOSE a \in ks : \A b \in ks : a <= b

\* "[text](url)" at position from (2 for an image, after its "!"): the
\* positions of "]" and ")" , or found FALSE.  The url holds no whitespace.
LinkAt(s, from) ==
  LET rb == IndexOf(s, <<Ord("]")>>, from + 1)
      rp == IF rb = 0 THEN 0 ELSE IndexOf(s, <<Ord(")")>>, rb + 2)
  IN  IF /\ CharAt(s, from) = Ord("[")
         /\ rb # 0
         /\ CharAt(s, rb + 1) = Ord("(")
         /\ rp # 0
         /\ \A k \in (rb + 2)..(rp - 1) : ~IsSpace(s[k])
      THEN [found |-> TRUE, rb |-> rb, rp |-> rp]
      ELSE NoMatch

\* tokenizeInline of remark-parse with the options of markdownToRemark
\* (commonmark, no "url" tokenizer, entity references kept): the inline
\* nodes of s.  At each position the tokenizers are tried in the parser's
\* order: escape, html, link and image, strong, emphasis, deletion, inline
\* code, text.
RECURSIVE tokenizeInline(_, _)

\* The node the first tokenizer that applies at the start of s produces, and
\* the number of characters it eats.
tokenAt(s) ==
  LET c    == s[1]
      tag  == HtmlTagLen(s)
      ents == {e \in Entities : StartsAt(s, 1, e.ref)}
      lnk  == LinkAt(s, 1)
      img  == IF c = Ord("!") THEN LinkAt(s, 2) ELSE NoMatch
      sc   == IF c \in {Star, Underscore} /\ CharAt(s, 2) = c
              THEN StrongClose(s) ELSE 0
      ec   == IF c \in {Star, Underscore} THEN EmphasisClose(s, 2, 0) ELSE 0
      dc   == IF c = Tilde /\ CharAt(s, 2) = Tilde /\ ~IsSpace(CharAt(s, 3))
              THEN DeleteClose(s) ELSE 0
      tn   == IF c = Tick THEN TickRun(s) ELSE 0
      cc   == IF tn > 0 THEN CodeClose(s, tn) ELSE 0
      eat(k, n) == [len |-> k, node |-> n]
  IN  IF c = Backslash /\ CharAt(s, 2) \in Escapable THEN
        eat(2, Text(<<s[2]>>))
      ELSE IF tag > 0 THEN
        eat(tag, Html(Take(s, tag)))
      ELSE IF lnk.found THEN
        eat(lnk.rp, Node("link", <<>>, SubSeq(s, lnk.rb + 2, lnk.rp - 1),
                         tokenizeInline(SubSeq(s, 2, lnk.rb - 1), <<>>)))
      ELSE IF img.found THEN
        eat(img.rp, Node("image", SubSeq(s, 3, img.rb - 1),
                         SubSeq(s, img.rb + 2, img.rp - 1), <<>>))
      ELSE IF sc > 0 THEN
        eat(sc + 1, Parent("strong", tokenizeInline(SubSeq(s, 3, sc - 1), <<>>)))
      ELSE IF ec > 0 THEN
        eat(ec, Parent("emphasis", tokenizeInline(SubSeq(s, 2, ec - 1), <<>>)))
      ELSE IF dc > 0 THEN
        eat(dc, Parent("delete", tokenizeInline(SubSeq(s, 3, dc - 2), <<>>)))
      ELSE IF cc > 0 THEN
        eat(cc + tn - 1,
            Node("inlineCode", Trim(SubSeq(s, tn + 1, cc - 1)), <<>>, <<>>))
      ELSE IF ents # {} THEN
        LET e == CHOOSE x \in ents : TRUE
        IN  eat(Len(e.ref), Text(remarkAllowHtmlEntities(e)))
      ELSE eat(1, Text(<<c>>))

tokenizeInline(s, acc) ==
  IF s = <<>> THEN acc
  ELSE LET t == tokenAt(s)
       IN  tokenizeInline(Drop(s, t.len), AddNode(acc, t.node))

\* The lines of s, split at "\n".
RECURSIVE SplitLines(_)
SplitLines(s) ==
  LET nl == IndexOf(s, <<Newline>>, 1)
  IN  IF nl = 0 THEN <<s>>
      ELSE <<Take(s, nl - 1)>> \o SplitLines(Drop(s, nl))

IsBlank(line) == \A k \in 1..Len(line) : IsSpace(line[k])

\* The paragraphs of a document: the runs of lines that are not blank, each
\* joined by "\n" and without its trailing whitespace.
RECURSIVE Paragraphs(_, _)
Paragraphs(lines, cur) ==
  LET done == IF cur = <<>> THEN <<>> ELSE <<trimEnd(cur)>>
  IN  IF lines = <<>> THEN done
      ELSE IF IsBlank(Head(lines)) THEN done \o Paragraphs(Tail(lines), <<>>)
      ELSE Paragraphs(Tail(lines),
                      IF cur = <<>> THEN Head(lines)
                      ELSE cur \o <<Newline>> \o Head(lines))

\* unified().use(markdownToRemarkPlugin, ...).parse(markdown): the tree of a
\* document made of paragraphs.
remarkParse(s) ==
  LET ps == Paragraphs(SplitLines(s), <<>>)
  IN  Parent("root", [i \in 1..Len(ps) |->
                        Parent("paragraph", tokenizeInline(ps[i], <<>>))])

\* ------------------------------------------------------------------------
\* The tree plugins of markdownToRemark and markdownToSlate
\* ------------------------------------------------------------------------

\* remarkImagesToText: an image that is all a top-level paragraph holds is
\* replaced by a text node carrying its alt text.
remarkImagesToText(tree) ==
  Parent("root",
     [i \in 1..Len(tree.children) |->
        LET p == tree.children[i]
        IN  IF p.type = "paragraph" /\ Len(p.children) = 1
               /\ p.children[1].type = "image"
            THEN Parent("paragraph", <<Text(p.children[1].value)>>)
            ELSE p])

\* The line "::: name args" a component is written as inside a document.
ComponentText(name, args) == Fence \o name \o <<Space>> \o args

\* The text of a text node cut at the lines that name a registered
\* component: those lines become inline component nodes.
RECURSIVE InlineShortcodes(_, _, _, _)
InlineShortcodes(registry, v, i, acc) ==
  IF i > Len(v) THEN acc
  ELSE
    LET m == LineMatchAt(v, i)
    IN  IF m.found /\ m.name \in registry
        THEN InlineShortcodes(registry, v, m.end,
                              Append(acc, Node("shortcodeInline", m.data, m.name, <<>>)))
        ELSE InlineShortcodes(registry, v, i + 1, AddNode(acc, Text(<<v[i]>>)))

\* remarkShortcodes with the registry's components: a paragraph that is one
\* line naming a registered component becomes a component block, such a
\* line inside a longer text an inline component; a line whose tag is not
\* registered stays text.
remarkShortcodes(registry, tree) ==
  LET inl(n) == IF n.type = "text"
                THEN InlineShortcodes(registry, n.value, 1, <<>>)
                ELSE <<n>>
      block(p) ==
        IF p.type # "paragraph" THEN p
        ELSE
          LET kids == Concat([k \in 1..Len(p.children) |-> inl(p.children[k])])
          IN  IF Len(kids) = 1 /\ kids[1].type = "shortcodeInline"
              THEN Node("shortcode", kids[1].value, kids[1].url, <<>>)
              ELSE Parent("paragraph", kids)
  IN  Parent("root", [i \in 1..Len(tree.children) |-> block(tree.children[i])])

\* remarkWrapHtml: a top-level html node is wrapped in a paragraph.
remarkWrapHtml(tree) ==
  Parent("root",
     [i \in 1..Len(tree.children) |->
        IF tree.children[i].type = "html"
        THEN Parent("paragraph", <<tree.children[i]>>)
        ELSE tree.children[i]])

\* Deserialize a Markdown string to an MDAST: the block rewrite, the parse
\* and the three plugins (no reference is in the bounded documents, so
\* remarkSquashReferences has nothing to squash).  Throws when base64Encode
\* throws.
markdownToRemark(env, registry, markdown) ==
  LET parse(encoded) ==
        IF ~encoded.ok THEN Threw
        ELSE Ok(remarkShortcodes(registry, remarkImagesToText(remarkParse(encoded.value))))
  IN  parse(EncodeBlocks(env, markdown))

\* ------------------------------------------------------------------------
\* The rich-document model (Slate Raw AST) and the two converters
\* ------------------------------------------------------------------------

\* A node of the rich document: kind is "block", "inline" or "text"; a text
\* node holds leaves, each a text and a set of marks; an inline node carries
\* the marks of the mark nodes that enclosed it.
SNode(kind, type, leaves, marks, value, url, nodes) ==
  [kind |-> kind, type |-> type, leaves |-> leaves, marks |-> marks,
   value |-> value, url |-> url, nodes |-> Tuple(nodes)]

Leaf(text, marks) == [text |-> text, marks |-> marks]

STextNode(leaves) == SNode("text", "text", leaves, {}, <<>>, <<>>, <<>>)

SInline(type, marks, value, url, nodes) ==
  SNode("inline", type, <<>>, marks, value, url, nodes)

SBlock(type, value, url, nodes) == SNode("block", type, <<>>, {}, value, url, nodes)

Marks == {"bold", "italic", "strikethrough", "code"}

\* The mark of a mark node.
MarkOf(type) ==
  IF type = "strong" THEN "bold"
  ELSE IF type = "emphasis" THEN "italic"
  ELSE "strikethrough"

\* A leaf appended without looking at the leaf before it.
appendLeafUnmerged(leaves, leaf) == Append(leaves, leaf)

\* The merging pass on one leaf: a leaf whose marks are those of the leaf
\* before it is merged into it, its text after the other's.
mergeLeaf(leaves, leaf) ==
  IF leaves # <<>> /\ leaves[Len(leaves)].marks = leaf.marks
  THEN [leaves EXCEPT ![Len(leaves)].text = @ \o leaf.text]
  ELSE Append(leaves, leaf)

RECURSIVE MergeLeaves(_, _)
MergeLeaves(acc, leaves) ==
  IF leaves = <<>> THEN acc
  ELSE MergeLeaves(mergeLeaf(acc, Head(leaves)), Tail(leaves))

\* A rich-document node appended to a list: the leaves of a text node
\* that follows a text node join that node's leaves.
AddSlate(nodes, n) ==
  IF nodes # <<>> /\ n.kind = "text" /\ nodes[Len(nodes)].kind = "text"
  THEN [nodes EXCEPT ![Len(nodes)].leaves = MergeLeaves(@, n.leaves)]
  ELSE Append(nodes, n)

RECURSIVE CondenseSlate(_, _)
CondenseSlate(acc, nodes) ==
  IF nodes = <<>> THEN acc
  ELSE CondenseSlate(AddSlate(acc, Head(nodes)), Tail(nodes))

\* The rich-document nodes of one inline syntax node under the marks of the
\* mark nodes around it: the depth-first visit that recurses into every
\* child of a mark node, text or not.
RECURSIVE convertInline(_, _)
convertInline(n, marks) ==
  IF n.type \in {"text", "html"} THEN <<STextNode(<<Leaf(n.value, marks)>>)>>
  ELSE IF n.type = "inlineCode" THEN
    <<STextNode(<<Leaf(n.value, marks \cup {"code"})>>)>>
  ELSE IF n.type \in MarkTypes THEN
    Concat([i \in 1..Len(n.children) |->
              convertInline(n.children[i], marks \cup {MarkOf(n.type)})])
  ELSE IF n.type = "link" THEN
    <<SInline("link", marks, <<>>, n.url,
              CondenseSlate(<<>>, Concat([i \in 1..Len(n.children) |->
                                            convertInline(n.children[i], {})])))>>
  ELSE IF n.type = "image" THEN <<SInline("image", marks, n.value, n.url, <<>>)>>
  ELSE <<SInline("shortcode", marks, n.value, n.url, <<>>)>>

\* remarkToSlate: the rich document of a syntax tree.
remarkToSlate(tree) ==
  LET block(b) ==
        IF b.type = "shortcode" THEN SBlock("shortcode", b.value, b.url, <<>>)
        ELSE SBlock("paragraph", <<>>, <<>>,
               CondenseSlate(<<>>, Concat([i \in 1..Len(b.children) |->
                                             convertInline(b.children[i], {})])))
  IN  SBlock("root", <<>>, <<>>, [i \in 1..Len(tree.children) |-> block(tree.children[i])])

\* Convert Markdown to Slate's Raw AST.  The syntax tree is kept beside the
\* rich document so that it can be observed.
markdownToSlate(env, registry, markdown) ==
  LET convert(mdast) ==
        IF ~mdast.ok THEN [ok |-> FALSE, mdast |-> Parent("root", <<>>),
                           slate |-> SBlock("root", <<>>, <<>>, <<>>)]
        ELSE [ok |-> TRUE, mdast |-> mdast.value,
              slate |-> remarkToSlate(remarkWrapHtml(mdast.value))]
  IN  convert(markdownToRemark(env, registry, markdown))

\* A segment of a paragraph on its way back to the syntax tree: a leaf's
\* text or an inline node, with the marks it carries.
Segment(kind, text, marks, node) ==
  [kind |-> kind, text |-> text, marks |-> marks, node |-> node]

NoNode == SInline("none", {}, <<>>, <<>>, <<>>)

\* A leaf whose marks are written around its whole text.
segmentsOfLeafUnsplit(leaf) == <<Segment("text", leaf.text, leaf.marks, NoNode)>>

\* The segments of one leaf: the whitespace a marked leaf starts and ends
\* with is set aside as unmarked segments, so that the mark's delimiters
\* are written around the rest.
segmentsOfLeaf(leaf) ==
  IF leaf.marks = {} \/ Trim(leaf.text) = leaf.text
  THEN <<Segment("text", leaf.text, leaf.marks, NoNode)>>
  ELSE
    LET lead  == LeadingSpace(leaf.text)
        trail == TrailingSpace(leaf.text)
    IN  (IF lead = <<>> THEN <<>> ELSE <<Segment("text", lead, {}, NoNode)>>)
        \o <<Segment("text", Trim(leaf.text), leaf.marks, NoNode)>>
        \o (IF trail = <<>> THEN <<>> ELSE <<Segment("text", trail, {}, NoNode)>>)

SegmentsOfNode(n) ==
  IF n.kind = "text"
  THEN Concat([i \in 1..Len(n.leaves) |-> segmentsOfLeaf(n.leaves[i])])
  ELSE <<Segment("inline", <<>>, n.marks, n)>>

\* The marks that become wrapper nodes: the code mark makes the leaf an
\* inlineCode node instead.
WrapMarks(seg) == seg.marks \ {"code"}

\* The wrappers of a set of marks, the outermost first, in the wrong order.
wrapperOrderBoldOutside(marks) ==
  SelectSeq(<<"strong", "emphasis", "delete">>, LAMBDA t : MarkOf(t) \in marks)

\* The wrappers of a set of marks, the outermost first: one fixed order for
\* every leaf.
wrapperOrder(marks) ==
  SelectSeq(<<"delete", "emphasis", "strong">>, LAMBDA t : MarkOf(t) \in marks)

RECURSIVE WrapIn(_, _)
WrapIn(types, nodes) ==
  IF types = <<>> THEN nodes
  ELSE <<Parent(Head(types), WrapIn(Tail(types), nodes))>>

\* The number of segments at the head of segs that carry the wrapper marks
\* ms.
RECURSIVE RunLength(_, _)
RunLength(segs, ms) ==
  IF segs = <<>> \/ WrapMarks(Head(segs)) # ms THEN 0
  ELSE 1 + RunLength(Tail(segs), ms)

\* The syntax nodes of a paragraph's rich-document nodes: each run of
\* segments with the same wrapper marks is written inside one nest of
\* wrappers.
RECURSIVE inlineToRemark(_)
RECURSIVE SegmentsToRemark(_)
SegmentsToRemark(segs) ==
  IF segs = <<>> THEN <<>>
  ELSE
    LET ms   == WrapMarks(Head(segs))
        n    == IF ms = {} THEN 1 ELSE RunLength(segs, ms)
        base(seg) ==
          IF seg.kind = "inline" THEN
            IF seg.node.type = "link"
              THEN Node("link", <<>>, seg.node.url, inlineToRemark(seg.node.nodes))
            ELSE IF seg.node.type = "image"
              THEN Node("image", seg.node.value, seg.node.url, <<>>)
            ELSE Html(ComponentText(seg.node.url, seg.node.value))
          ELSE IF "code" \in seg.marks THEN Node("inlineCode", seg.text, <<>>, <<>>)
          ELSE Text(seg.text)
    IN  WrapIn(wrapperOrder(ms), [i \in 1..n |-> base(segs[i])])
        \o SegmentsToRemark(Drop(segs, n))

inlineToRemark(nodes) ==
  SegmentsToRemark(Concat([i \in 1..Len(nodes) |-> SegmentsOfNode(nodes[i])]))

\* slateToRemark(raw, { shortcodePlugins }): the syntax tree of a rich
\* document; a component is written back as the text of its line.
slateToRemark(raw) ==
  LET block(b) ==
        IF b.type = "shortcode"
        THEN Parent("paragraph", <<Html(ComponentText(b.url, b.value))>>)
        ELSE Parent("paragraph", inlineToRemark(b.nodes))
  IN  Parent("root", [i \in 1..Len(raw.nodes) |-> block(raw.nodes[i])])

\* ------------------------------------------------------------------------
\* The Markdown serializer
\* ------------------------------------------------------------------------

\* The text of a text node with every markup-significant character escaped,
\* inside an HTML element or not.
escapeEverywhere(v) ==
  Concat([i \in 1..Len(v) |->
            IF v[i] \in Escapable THEN <<Backslash, v[i]>> ELSE <<v[i]>>])

\* The escaping of one text, from position i on: a markup-significant
\* character gets a backslash, except inside an HTML tag and between an
\* opening tag and the tag that closes it.
RECURSIVE EscapeFrom(_, _)
EscapeFrom(v, i) ==
  IF i > Len(v) THEN <<>>
  ELSE
    LET tag   == HtmlTagLen(Drop(v, i - 1))
        close == Str(<<"<", "/">>) \o SubSeq(v, i + 1, i + tag - 1)
        ci    == IF tag > 0 /\ v[i + 1] # Ord("/")
                 THEN IndexOf(v, close, i + tag) ELSE 0
        upto  == IF ci # 0 THEN ci + Len(close) - 1 ELSE i + tag - 1
    IN  IF tag > 0 THEN SubSeq(v, i, upto) \o EscapeFrom(v, upto + 1)
        ELSE IF v[i] \in Escapable THEN <<Backslash, v[i]>> \o EscapeFrom(v, i + 1)
        ELSE <<v[i]>> \o EscapeFrom(v, i + 1)

escapeText(v) == EscapeFrom(v, 1)

\* remarkEscapeMarkdownEntities: the escaping of every text node of a tree.
RECURSIVE remarkEscapeMarkdownEntities(_)
remarkEscapeMarkdownEntities(n) ==
  IF n.type = "text" THEN [n EXCEPT !.value = escapeText(n.value)]
  ELSE Node(n.type, n.value, n.url,
            [i \in 1..Len(n.children) |-> remarkEscapeMarkdownEntities(n.children[i])])

\* The text visitor of remark-stringify, which escapes and encodes what it
\* writes.
defaultTextVisitor(n) ==
  Concat([i \in 1..Len(n.value) |->
            IF n.value[i] \in Escapable THEN <<Backslash, n.value[i]>>
            ELSE IF n.value[i] = Ord("<") THEN Str(<<"&", "l", "t", ";">>)
            ELSE IF n.value[i] = Ord("&") THEN Str(<<"&", "a", "m", "p", ";">>)
            ELSE <<n.value[i]>>])

\* remarkAllowAllText: visitors.text = node => node.value.
remarkAllowAllText(n) == n.value

\* The markers of remarkToMarkdownPluginOpts (strong: '*') and the defaults
\* of remark-stringify for the other nodes.
StrongMarker == <<Star, Star>>

EmphasisMarker == <<Underscore>>

DeleteMarker == <<Tilde, Tilde>>

\* The compiler of remark-stringify on one node.
RECURSIVE visit(_)
visit(n) ==
  LET inner == Concat([i \in 1..Len(n.children) |-> visit(n.children[i])])
  IN  IF n.type = "text" THEN remarkAllowAllText(n)
      ELSE IF n.type = "html" THEN n.value
      ELSE IF n.type = "inlineCode" THEN <<Tick>> \o n.value \o <<Tick>>
      ELSE IF n.type = "strong" THEN StrongMarker \o inner \o StrongMarker
      ELSE IF n.type = "emphasis" THEN EmphasisMarker \o inner \o EmphasisMarker
      ELSE IF n.type = "delete" THEN DeleteMarker \o inner \o DeleteMarker
      ELSE IF n.type = "link" THEN
        <<Ord("[")>> \o inner \o Str(<<"]", "(">>) \o n.url \o <<Ord(")")>>
      ELSE IF n.type = "image" THEN
        Str(<<"!", "[">>) \o n.value \o Str(<<"]", "(">>) \o n.url \o <<Ord(")")>>
      ELSE IF n.type \in {"shortcode", "shortcodeInline"} THEN
        ComponentText(n.url, n.value)
      ELSE IF n.type = "paragraph" THEN inner
      ELSE \* root: the blocks, a blank line between two, a newline at the end
        Concat([i \in 1..Len(n.children) |->
                  visit(n.children[i])
                  \o (IF i < Len(n.children) THEN <<Newline, Newline>> ELSE <<>>)])
        \o <<Newline>>

\* No tree: what a caller passes when it has none.
NoTree == Node("none", <<>>, <<>>, <<>>)

\* u('root', [u('paragraph', [u('text', '')])])
EmptyMdast == Parent("root", <<Parent("paragraph", <<Text(<<>>)>>)>>)

\* lodash trimEnd replaced by String.prototype.trim.
trimBoth(s) == Trim(s)

\* Return markdown with trailing whitespace removed.
finalTrim(s) == trimEnd(s)

\* Serialize an MDAST to a Markdown string: the escaping pass (no break is
\* in the bounded trees, so remarkStripTrailingBreaks has nothing to
\* strip), the stringifier, the restoring of the component blocks and the
\* final trim.  Throws when base64Decode throws.
remarkToMarkdown(env, obj) ==
  LET mdast == IF obj = NoTree THEN EmptyMdast ELSE obj
      finish(restored) ==
        IF ~restored.ok THEN Threw ELSE Ok(finalTrim(restored.value))
  IN  finish(RestoreBlocks(env, visit(remarkEscapeMarkdownEntities(mdast))))

\* Convert a Slate Raw AST to Markdown.
slateToMarkdown(env, raw) == remarkToMarkdown(env, slateToRemark(raw))

\* process = flow([markdownToSlate, slateToMarkdown]) of the tests.
process(env, registry, markdown) ==
  LET back(r) == IF ~r.ok THEN Threw ELSE slateToMarkdown(env, r.slate)
  IN  back(markdownToSlate(env, registry, markdown))

\* ------------------------------------------------------------------------
\* The entry draft reducer
\* ------------------------------------------------------------------------

\* An Immutable Map is a function on the keys it holds; Map() holds none.
\* A List is a sequence.
EmptyMap == [k \in {} |-> FALSE]

List0 == <<>>

has(m, k) == k \in DOMAIN m

set(m, k, v) == (k :> v) @@ m

delete(m, k) == [j \in DOMAIN m \ {k} |-> m[j]]

\* The Map at key k, or the Map setIn creates there.
mapAt(m, k) == IF has(m, k) THEN m[k] ELSE EmptyMap

\* setIn([k1, k2], v) and deleteIn([k1, k2]).
setIn(m, k1, k2, v) == set(m, k1, set(mapAt(m, k1), k2, v))

deleteIn(m, k1, k2) ==
  IF has(m, k1) /\ has(m[k1], k2) THEN set(m, k1, delete(m[k1], k2)) ELSE m

\* key || fallback on a payload.
orElse(payload, k, fallback) == IF has(payload, k) THEN payload[k] ELSE fallback

\* list.filterNot(file => file.id === id)
filterNot(list, id) == SelectSeq(list, LAMBDA file : file.id # id)

initialState ==
  ("entry" :> EmptyMap) @@ ("mediaFiles" :> List0) @@ ("fieldsMetaData" :> EmptyMap)
    @@ ("fieldsErrors" :> EmptyMap) @@ ("hasChanged" :> FALSE)

\* What the five sets shared by the three draft creations leave.
created(state, entry, newRecord, mediaFiles, metadata, hasChanged) ==
  ("entry" :> set(entry, "newRecord", newRecord)) @@ ("mediaFiles" :> mediaFiles)
    @@ ("fieldsMetaData" :> metadata) @@ ("fieldsErrors" :> EmptyMap)
    @@ ("hasChanged" :> hasChanged) @@ state

draftCreateFromEntry(state, payload) ==
  created(state, payload.entry, FALSE, orElse(payload, "mediaFiles", List0),
          orElse(payload, "metadata", EmptyMap), FALSE)

draftCreateEmpty(state, payload) ==
  created(state, payload, TRUE, List0, EmptyMap, FALSE)

\* state.get('localBackup') is undefined when no backup was retrieved: the
\* reducer throws and the store keeps its state.
draftCreateFromLocalBackup(state) ==
  IF ~has(state, "localBackup") THEN state
  ELSE LET backupDraftEntry == state.localBackup
           backupEntry == backupDraftEntry.entry
       IN  created(delete(state, "localBackup"), backupEntry,
                   ~has(backupEntry, "path"), backupDraftEntry.mediaFiles,
                   EmptyMap, TRUE)

draftLocalBackupRetrieved(state, payload) ==
  set(state, "localBackup",
      ("entry" :> payload.entry) @@ ("mediaFiles" :> payload.mediaFiles))

\* mergeDeepIn(['fieldsMetaData'], fromJS(metadata)): nothing is set when
\* nothing is merged.
draftChangeField(state, payload) ==
  LET withField == set(state, "entry",
                       setIn(mapAt(state, "entry"), "data", payload.field, payload.value))
      metadata  == orElse(payload, "metadata", EmptyMap)
      merged    == IF DOMAIN metadata = {} THEN withField
                   ELSE set(withField, "fieldsMetaData",
                            metadata @@ mapAt(withField, "fieldsMetaData"))
  IN  set(merged, "hasChanged", TRUE)

draftValidationErrors(state, payload) ==
  IF Len(payload.errors) = 0
  THEN deleteIn(state, "fieldsErrors", payload.uniquefieldId)
  ELSE setIn(state, "fieldsErrors", payload.uniquefieldId, payload.errors)

entryPersistRequest(state) == setIn(state, "entry", "isPersisting", TRUE)

entryPersistFailure(state) == deleteIn(state, "entry", "isPersisting")

\* hasChanged is cleared whatever happened since the request.
entryPersistSuccess(state, payload) ==
  LET cleared == set(deleteIn(state, "entry", "isPersisting"), "hasChanged", FALSE)
  IN  IF has(mapAt(cleared, "entry"), "slug") THEN cleared
      ELSE setIn(cleared, "entry", "slug", payload.slug)

entryDeleteSuccess(state) ==
  set(deleteIn(state, "entry", "isPersisting"), "hasChanged", FALSE)

\* ADD_DRAFT_ENTRY_MEDIA_FILE without the filterNot.
addWithoutFilter(state, payload) ==
  IF has(state, "mediaFiles")
  THEN set(state, "mediaFiles", Append(state.mediaFiles, payload))
  ELSE state

addDraftEntryMediaFile(state, payload) ==
  IF has(state, "mediaFiles")
  THEN set(state, "mediaFiles", Append(filterNot(state.mediaFiles, payload.id), payload))
  ELSE state

removeDraftEntryMediaFile(state, payload) ==
  IF has(state, "mediaFiles")
  THEN set(state, "mediaFiles", filterNot(state.mediaFiles, payload.id))
  ELSE state

PersistRequests == {"ENTRY_PERSIST_REQUEST", "UNPUBLISHED_ENTRY_PERSIST_REQUEST"}

PersistFailures == {"ENTRY_PERSIST_FAILURE", "UNPUBLISHED_ENTRY_PERSIST_FAILURE"}

PersistSuccesses == {"ENTRY_PERSIST_SUCCESS", "UNPUBLISHED_ENTRY_PERSIST_SUCCESS"}

entryDraftReducer(state, action) ==
  CASE action.type = "DRAFT_CREATE_FROM_ENTRY" -> draftCreateFromEntry(state, action.payload)
    [] action.type = "DRAFT_CREATE_EMPTY" -> draftCreateEmpty(state, action.payload)
    [] action.type = "DRAFT_CREATE_FROM_LOCAL_BACKUP" -> draftCreateFromLocalBackup(state)
    [] action.type = "DRAFT_DISCARD" -> initialState
    [] action.type = "DRAFT_LOCAL_BACKUP_RETRIEVED" ->
         draftLocalBackupRetrieved(state, action.payload)
    [] action.type = "DRAFT_CHANGE_FIELD" -> draftChangeField(state, action.payload)
    [] action.type = "DRAFT_VALIDATION_ERRORS" -> draftValidationErrors(state, action.payload)
    [] action.type = "DRAFT_CLEAR_ERRORS" -> set(state, "fieldsErrors", EmptyMap)
    [] action.type \in PersistRequests -> entryPersistRequest(state)
    [] action.type \in PersistFailures -> entryPersistFailure(state)
    [] action.type \in PersistSuccesses -> entryPersistSuccess(state, action.payload)
    [] action.type = "ENTRY_DELETE_SUCCESS" -> entryDeleteSuccess(state)
    [] action.type = "ADD_DRAFT_ENTRY_MEDIA_FILE" ->
         addDraftEntryMediaFile(state, action.payload)
    [] action.type = "SET_DRAFT_ENTRY_MEDIA_FILES" ->
         set(state, "mediaFiles", action.payload)
    [] action.type = "REMOVE_DRAFT_ENTRY_MEDIA_FILE" ->
         removeDraftEntryMediaFile(state, action.payload)
    [] action.type = "CLEAR_DRAFT_ENTRY_MEDIA_FILES" -> set(state, "mediaFiles", List0)
    [] OTHER -> state

\* ------------------------------------------------------------------------
\* Bounded inputs
\* ------------------------------------------------------------------------

\* The most lines a bounded document has.
MaxLines == 3

\* The most letters a word of a bounded inline document has.
MaxWord == 1

\* The most text nodes a bounded rich-document paragraph has.
MaxTextNodes == 2

\* The sequences of 1..n elements of S.
SeqsUpTo(S, n) == UNION {[1..k -> S] : k \in 1..n}

Join(lines) ==
  Concat([i \in 1..Len(lines) |->
            lines[i] \o (IF i < Len(lines) THEN <<Newline>> ELSE <<>>)])

\* The lines the documents with components are made of: an opening fence,
\* a fence whose name holds a space (which is also a line of the form
\* "::: word word"), a closing fence, a line of text and a blank line.
DocLines ==
  { Str(<<":", ":", ":", " ", "a">>),
    Str(<<":", ":", ":", " ", "a", " ", "b">>),
    Str(<<":", ":", ":">>),
    Str(<<"x">>),
    <<>> }

\* The documents of up to MaxLines lines, with and without a last newline.
ComponentDocs ==
  LET joined == {Join(ls) : ls \in SeqsUpTo(DocLines, MaxLines)}
  IN  joined \cup {d \o <<Newline>> : d \in joined}

Letters == {Ord("a"), Ord("b")}

Words == SeqsUpTo(Letters, MaxWord)

WordsOrNone == Words \cup {<<>>}

\* "[a](b)", "![a](b)" and the inline code of a word.
Atoms ==
  { Str(<<"[", "a", "]", "(", "b", ")">>), Str(<<"!", "[", "a", "]", "(", "b", ")">>) }
  \cup {<<Tick>> \o w \o <<Tick>> : w \in Words}

\* The canonical documents of the round-trip tests: an entity-escaped tag
\* inside <code>, a link, image or inline code inside strong or emphasis,
\* an image after text, a markup-significant character inside an HTML
\* element, and bold, plain, bold.
CodeOpen == Str(<<"<", "c", "o", "d", "e", ">">>)

CodeEnd == Str(<<"<", "/", "c", "o", "d", "e", ">">>)

SpanOpen == Str(<<"<", "s", "p", "a", "n", ">">>)

SpanEnd == Str(<<"<", "/", "s", "p", "a", "n", ">">>)

CanonicalDocs ==
  {CodeOpen \o Str(<<"&", "l", "t", ";">>) \o w \o Str(<<"&", "g", "t", ";">>) \o CodeEnd :
     w \in Words}
  \cup {d \o pre \o atom \o post \o d :
          d \in {StrongMarker, EmphasisMarker}, pre \in WordsOrNone,
          atom \in Atoms, post \in WordsOrNone}
  \cup {w \o <<Space>> \o Str(<<"!", "[", "b", "]", "(", "c", ")">>) : w \in Words}
  \cup {SpanOpen \o <<c>> \o SpanEnd : c \in Escapable \ {Backslash}}
  \cup {StrongMarker \o u \o StrongMarker \o v \o StrongMarker \o w \o StrongMarker :
          u \in Words, v \in Words, w \in Words}

Delimiters == {StrongMarker, EmphasisMarker, DeleteMarker}

\* Documents with a mark nested inside another: "**a _b_ c**",
\* "**a ~~b~~~~c~~**", "_**b**_", the three marks nested in every order, and
\* a text holding a markup-significant character.
NestedDocs ==
  LET pairs   == {p \in Delimiters \X Delimiters : p[1] # p[2]}
      triples == {p \in Delimiters \X Delimiters \X Delimiters :
                    p[1] # p[2] /\ p[1] # p[3] /\ p[2] # p[3]}
  IN  {p[1] \o pre \o p[2] \o w \o p[2] \o post \o p[1] :
         p \in pairs, w \in Words,
         pre \in {<<>>, Str(<<"a", " ">>)}, post \in {<<>>, Str(<<" ", "c">>)}}
      \cup {p[1] \o Str(<<"a", " ">>) \o p[2] \o Str(<<"b">>) \o p[2]
              \o p[2] \o tail \o p[2] \o p[1] :
              p \in pairs,
              tail \in {Str(<<"c">>), Str(<<"[", "c", "]", "(", "d", ")">>)}}
      \cup {p[1] \o p[2] \o p[3] \o w \o p[3] \o p[2] \o p[1] :
              p \in triples, w \in Words}
      \cup {Str(<<"a", "*", "b">>)}

Docs == ComponentDocs \cup CanonicalDocs \cup NestedDocs

\* The tag names the registry may hold.
Registries == {{}, {Str(<<"a">>)}}

\* The leaves and paragraphs of the rich documents handed to slateToMarkdown
\* directly, as the editor holds them: each text node has one leaf.
LeafTexts ==
  {Str(<<"a">>), Str(<<"a", " ">>), Str(<<" ", "a">>), Str(<<" ", "a", " ">>)}

EditorLeaves == {Leaf(t, ms) : t \in LeafTexts, ms \in SUBSET {"bold", "italic"}}

EditorDocs ==
  {SBlock("root", <<>>, <<>>,
          <<SBlock("paragraph", <<>>, <<>>,
                   [i \in 1..Len(ls) |-> STextNode(<<ls[i]>>)])>>) :
     ls \in SeqsUpTo(EditorLeaves, MaxTextNodes)}

\* ------------------------------------------------------------------------
\* The serializers as a state machine
\* ------------------------------------------------------------------------

VARIABLES
  env,       \* the platform: "node" or "browser"
  registry,  \* the tag names getEditorComponents() knows
  pc,        \* "markdown", "slate", "tree", "done", "threw" or "idle"
  pass,      \* 1, or 2 when process runs on its own output
  origin,    \* the document the first pass started from
  md,        \* the document of this pass
  mdast,     \* the tree markdownToRemark returned, or the tree to serialize
  slate,     \* the rich document
  out,       \* the string returned
  first,     \* the string the first pass returned
  draft,     \* the state the store holds for entryDraftReducer
  last,      \* the action dispatched last
  requested,     \* a persist request is waiting for its answer
  changedSince,  \* a field changed after the request made last, before its answer
  answered       \* the action dispatched last answered a waiting request

draftVars == <<draft, last, requested, changedSince, answered>>

vars == <<env, registry, pc, pass, origin, md, mdast, slate, out, first, draftVars>>

NoAction == [type |-> "@@INIT"]

\* The store before any action: the reducer's default state, Map().
DraftInit ==
  /\ draft = EmptyMap
  /\ last = NoAction
  /\ requested = FALSE
  /\ changedSince = FALSE
  /\ answered = FALSE

EmptySlate == SBlock("root", <<>>, <<>>, <<>>)

InitFrom(state, doc, tree, raw) ==
  /\ env \in Envs
  /\ registry \in Registries
  /\ pc = state
  /\ pass = 1
  /\ origin = doc
  /\ md = doc
  /\ mdast = tree
  /\ slate = raw
  /\ out = <<>>
  /\ first = <<>>
  /\ DraftInit

\* A document is about to be processed.
Init == \E d \in Docs : InitFrom("markdown", d, NoTree, EmptySlate)

\* markdownToSlate(md)
MarkdownToSlate ==
  /\ pc = "markdown"
  /\ \E r \in {markdownToSlate(env, registry, md)} :
         IF r.ok
         THEN pc' = "slate" /\ mdast' = r.mdast /\ slate' = r.slate
         ELSE pc' = "threw" /\ UNCHANGED <<mdast, slate>>
  /\ UNCHANGED <<env, registry, pass, origin, md, out, first, draftVars>>

\* slateToMarkdown(slate)
SlateToMarkdown ==
  /\ pc = "slate"
  /\ \E r \in {slateToMarkdown(env, slate)} :
         IF r.ok THEN pc' = "done" /\ out' = r.value
         ELSE pc' = "threw" /\ UNCHANGED out
  /\ UNCHANGED <<env, registry, pass, origin, md, mdast, slate, first, draftVars>>

\* process is applied to what process returned.
Reprocess ==
  /\ pc = "done"
  /\ pass = 1
  /\ pass' = 2
  /\ first' = out
  /\ md' = out
  /\ pc' = "markdown"
  /\ UNCHANGED <<env, registry, origin, mdast, slate, out, draftVars>>

\* remarkToMarkdown(mdast)
RemarkToMarkdown ==
  /\ pc = "tree"
  /\ \E r \in {remarkToMarkdown(env, mdast)} :
         IF r.ok THEN pc' = "done" /\ out' = r.value
         ELSE pc' = "threw" /\ UNCHANGED out
  /\ UNCHANGED <<env, registry, pass, origin, md, mdast, slate, first, draftVars>>

Next == MarkdownToSlate \/ SlateToMarkdown \/ Reprocess

Spec == Init /\ [][Next]_vars

\* slateToMarkdown on a rich document of the editor.
InitSlate == \E raw \in EditorDocs : InitFrom("slate", <<>>, NoTree, raw)

NextSlate == SlateToMarkdown

SpecSlate == InitSlate /\ [][NextSlate]_vars

\* remarkToMarkdown on no tree or on the tree of a document.
InitRemark ==
  \E t \in {NoTree} \cup {remarkParse(d) : d \in ComponentDocs} :
    InitFrom("tree", <<>>, t, EmptySlate)

NextRemark == RemarkToMarkdown

SpecRemark == InitRemark /\ [][NextRemark]_vars

\* ------------------------------------------------------------------------
\* The entry draft reducer as a state machine
\* ------------------------------------------------------------------------

\* The most ids the media files of an entry have.
MaxId == 3

File(id, name) == [id |-> id, name |-> name]

MediaFiles == {File(i, n) : i \in 1..MaxId, n \in {"a", "b"}}

OneFile == {File(1, "a")}

NewEntry == "data" :> EmptyMap

SavedEntry == ("data" :> ("title" :> "x")) @@ ("slug" :> "old") @@ ("path" :> "p")

Entries == {NewEntry, SavedEntry}

Metadata == "title" :> "m"

Action(type, payload) == [type |-> type, payload |-> payload]

\* store.dispatch(action): the store takes the state the reducer returns.
Dispatch(action) ==
  /\ draft' = entryDraftReducer(draft, action)
  /\ last' = action
  /\ requested' = IF action.type \in PersistRequests THEN TRUE
                  ELSE IF action.type \in PersistSuccesses \cup PersistFailures THEN FALSE
                  ELSE requested
  /\ changedSince' = IF action.type \in PersistRequests THEN FALSE
                     ELSE IF action.type = "DRAFT_CHANGE_FIELD" /\ requested THEN TRUE
                     ELSE changedSince
  /\ answered' = (action.type \in PersistSuccesses \cup PersistFailures /\ requested)
  /\ UNCHANGED <<env, registry, pc, pass, origin, md, mdast, slate, out, first>>

DraftCreateFromEntry ==
  /\ pc = "idle"
  /\ \E e \in Entries, rest \in {EmptyMap, ("mediaFiles" :> <<File(1, "a")>>) @@ ("metadata" :> Metadata)} :
       Dispatch(Action("DRAFT_CREATE_FROM_ENTRY", ("entry" :> e) @@ rest))

DraftCreateEmpty ==
  /\ pc = "idle"
  /\ \E e \in {NewEntry} :
       Dispatch(Action("DRAFT_CREATE_EMPTY", e))

DraftCreateFromLocalBackup ==
  /\ pc = "idle"
  /\ Dispatch(Action("DRAFT_CREATE_FROM_LOCAL_BACKUP", EmptyMap))

DraftDiscard ==
  /\ pc = "idle"
  /\ Dispatch(Action("DRAFT_DISCARD", EmptyMap))

DraftLocalBackupRetrieved ==
  /\ pc = "idle"
  /\ \E e \in Entries :
       Dispatch(Action("DRAFT_LOCAL_BACKUP_RETRIEVED", ("entry" :> e) @@ ("mediaFiles" :> <<File(1, "a")>>)))

DraftChangeField ==
  /\ pc = "idle"
  /\ \E v \in {"x", "y"}, rest \in {EmptyMap, "metadata" :> Metadata} :
       Dispatch(Action("DRAFT_CHANGE_FIELD", ("field" :> "title") @@ ("value" :> v) @@ rest))

DraftValidationErrors ==
  /\ pc = "idle"
  /\ \E errors \in {<<>>, <<"required">>} :
       Dispatch(Action("DRAFT_VALIDATION_ERRORS", [uniquefieldId |-> "f1", errors |-> errors]))

DraftClearErrors ==
  /\ pc = "idle"
  /\ Dispatch(Action("DRAFT_CLEAR_ERRORS", EmptyMap))

EntryPersistRequest ==
  /\ pc = "idle"
  /\ \E t \in PersistRequests :
       Dispatch(Action(t, EmptyMap))

EntryPersistFailure ==
  /\ pc = "idle"
  /\ \E t \in PersistFailures :
       Dispatch(Action(t, EmptyMap))

EntryPersistSuccess ==
  /\ pc = "idle"
  /\ \E t \in PersistSuccesses :
       Dispatch(Action(t, [slug |-> "new"]))

EntryDeleteSuccess ==
  /\ pc = "idle"
  /\ Dispatch(Action("ENTRY_DELETE_SUCCESS", EmptyMap))

AddDraftEntryMediaFile(files) ==
  /\ pc = "idle"
  /\ \E f \in files :
       Dispatch(Action("ADD_DRAFT_ENTRY_MEDIA_FILE", f))

SetDraftEntryMediaFiles ==
  /\ pc = "idle"
  /\ \E fs \in {<<>>, <<File(1, "a")>>, <<File(1, "a"), File(1, "b")>>} :
       Dispatch(Action("SET_DRAFT_ENTRY_MEDIA_FILES", fs))

RemoveDraftEntryMediaFile(files) ==
  /\ pc = "idle"
  /\ \E f \in files :
       Dispatch(Action("REMOVE_DRAFT_ENTRY_MEDIA_FILE", [id |-> f.id]))

ClearDraftEntryMediaFiles ==
  /\ pc = "idle"
  /\ Dispatch(Action("CLEAR_DRAFT_ENTRY_MEDIA_FILES", EmptyMap))

\* An action type the reducer has no case for.
OtherAction ==
  /\ pc = "idle"
  /\ Dispatch(Action("@@redux/PROBE", EmptyMap))

\* The store is created; no document is being converted.
InitDraft ==
  /\ env = "browser"
  /\ registry = {}
  /\ pc = "idle"
  /\ pass = 1
  /\ origin = <<>>
  /\ md = <<>>
  /\ mdast = NoTree
  /\ slate = EmptySlate
  /\ out = <<>>
  /\ first = <<>>
  /\ DraftInit

NextDraft ==
  \/ DraftCreateFromEntry
  \/ DraftCreateEmpty
  \/ DraftCreateFromLocalBackup
  \/ DraftDiscard
  \/ DraftLocalBackupRetrieved
  \/ DraftChangeField
  \/ DraftValidationErrors
  \/ DraftClearErrors
  \/ EntryPersistRequest
  \/ EntryPersistFailure
  \/ EntryPersistSuccess
  \/ EntryDeleteSuccess
  \/ AddDraftEntryMediaFile(OneFile)
  \/ SetDraftEntryMediaFiles
  \/ RemoveDraftEntryMediaFile(OneFile)
  \/ ClearDraftEntryMediaFiles
  \/ OtherAction

SpecDraft == InitDraft /\ [][NextDraft]_vars

\* A draft is created, then media files are added, removed and cleared.
NextMedia ==
  \/ DraftCreateEmpty
  \/ DraftDiscard
  \/ AddDraftEntryMediaFile(MediaFiles)
  \/ RemoveDraftEntryMediaFile(MediaFiles)
  \/ ClearDraftEntryMediaFiles

SpecMedia == InitDraft /\ [][NextMedia]_vars

\* ------------------------------------------------------------------------
\* Properties of the round trip through the rich document
\* ------------------------------------------------------------------------

\* The first pass of process has returned.
Returned == pc = "done" /\ pass = 1

\* The text nodes of a rich-document node.
RECURSIVE TextNodesOf(_)
TextNodesOf(n) ==
  IF n.kind = "text" THEN {n}
  ELSE UNION {TextNodesOf(n.nodes[i]) : i \in 1..Len(n.nodes)}

\* The characters of a syntax tree with the marks around each, in order.
RECURSIVE CharsOfMdast(_, _)
CharsOfMdast(n, marks) ==
  IF n.type \in {"text", "html"} THEN [i \in 1..Len(n.value) |-> <<n.value[i], marks>>]
  ELSE IF n.type = "inlineCode"
    THEN [i \in 1..Len(n.value) |-> <<n.value[i], marks \cup {"code"}>>]
  ELSE IF n.type \in {"image", "shortcode", "shortcodeInline", "none"} THEN <<>>
  ELSE Concat([i \in 1..Len(n.children) |->
                 CharsOfMdast(n.children[i],
                              IF n.type \in MarkTypes THEN marks \cup {MarkOf(n.type)}
                              ELSE IF n.type = "link" THEN {}
                              ELSE marks)])

\* The characters of a rich document with the marks of their leaf, in order.
RECURSIVE CharsOfSlate(_)
CharsOfSlate(n) ==
  IF n.kind = "text"
  THEN Concat([k \in 1..Len(n.leaves) |->
                 [i \in 1..Len(n.leaves[k].text) |->
                    <<n.leaves[k].text[i], n.leaves[k].marks>>]])
  ELSE Concat([i \in 1..Len(n.nodes) |-> CharsOfSlate(n.nodes[i])])

CondenseExample == Str(<<"*", "*", "a", " ", "~", "~", "b", "~", "~", "~", "~", "c", "~", "~", "*", "*">>)

CondenseResult == Str(<<"*", "*", "a", "*", "*", " ", "~", "~", "*", "*", "b", "c", "*", "*", "~", "~">>)

CondenseLeaves ==
  <<Leaf(Str(<<"a", " ">>), {"bold"}), Leaf(Str(<<"b", "c">>), {"bold", "strikethrough"})>>

\* C1: a canonical document of the listed shapes comes back from
\* markdownToSlate followed by slateToMarkdown exactly as it went in.
C1_RoundTrip == (Returned /\ origin \in CanonicalDocs) => out = origin

\* A link inside a strong node has made the round trip.
C1_Witness ==
  /\ Returned
  /\ origin = Str(<<"*", "*", "a", "[", "a", "]", "(", "b", ")", "b", "*", "*">>)
  /\ out = origin
  /\ \E i \in 1..Len(slate.nodes[1].nodes) : slate.nodes[1].nodes[i].type = "link"

\* C2: in the rich document markdownToSlate returns no text node has two
\* adjacent leaves with the same marks, every character keeps its marks and
\* its place, and "**a ~~b~~~~c~~**" gives the leaves "a " {bold} and "bc"
\* {bold, strikethrough} and is written back as "**a** ~~**bc**~~".
C2_MarkMerging ==
  (pc \in {"slate", "done"}) =>
    /\ \A t \in TextNodesOf(slate) :
         \A i \in 1..(Len(t.leaves) - 1) : t.leaves[i].marks # t.leaves[i + 1].marks
    /\ CharsOfSlate(slate) = CharsOfMdast(mdast, {})
    /\ md = CondenseExample =>
         /\ slate.nodes[1].nodes = <<STextNode(CondenseLeaves)>>
         /\ pc = "done" => out = CondenseResult

\* The two struck-through runs inside the strong node were merged.
C2_Witness ==
  /\ Returned
  /\ origin = CondenseExample
  /\ slate.nodes[1].nodes[1].leaves = CondenseLeaves
  /\ out = CondenseResult

\* The wrappers of a word, the outermost first, as one string.
RECURSIVE Wrapped(_, _)
Wrapped(types, w) ==
  IF types = <<>> THEN w
  ELSE LET d == IF Head(types) = "strong" THEN StrongMarker
                ELSE IF Head(types) = "emphasis" THEN EmphasisMarker
                ELSE DeleteMarker
       IN  d \o Wrapped(Tail(types), w) \o d

\* The mark nodes of a syntax tree that have a mark node of one of the
\* given types below them.
RECURSIVE HasBelow(_, _)
HasBelow(n, types) ==
  \E i \in 1..Len(n.children) :
    n.children[i].type \in types \/ HasBelow(n.children[i], types)

RECURSIVE StrongOutside(_)
StrongOutside(n) ==
  \/ n.type = "strong" /\ HasBelow(n, {"emphasis", "delete"})
  \/ \E i \in 1..Len(n.children) : StrongOutside(n.children[i])

InterruptedBold == Str(<<"*", "*", "a", " ", "_", "b", "_", " ", "c", "*", "*">>)

InterruptedBoldResult ==
  Str(<<"*", "*", "a", "*", "*", " ", "_", "*", "*", "b", "*", "*", "_", " ", "*", "*", "c", "*", "*">>)

\* The marks the delimiters of a document opening with three delimiters,
\* two delimiters or one stand for.
OpeningMarks(d) ==
  (IF StrongMarker \in d THEN {"strong"} ELSE {})
  \cup (IF EmphasisMarker \in d THEN {"emphasis"} ELSE {})
  \cup (IF DeleteMarker \in d THEN {"delete"} ELSE {})

\* C8: a bold run interrupted by a segment with one more mark is written
\* with bold around each segment ("**a _b_ c**" becomes
\* "**a** _**b**_ **c**"); no strong node of the tree written back has an
\* emphasis or deletion below it; and a word under two or three marks is
\* written the same way in whatever order the marks were nested.
C8_NestingOrder ==
  /\ (Returned /\ origin = InterruptedBold) => out = InterruptedBoldResult
  /\ (pc \in {"slate", "done"}) => ~StrongOutside(slateToRemark(slate))
  /\ Returned =>
       \A w \in Words, p \in (Delimiters \X Delimiters) \cup (Delimiters \X Delimiters \X Delimiters) :
         LET ds == {p[i] : i \in 1..Len(p)}
         IN  (Cardinality(ds) = Len(p)
              /\ origin = Wrapped([i \in 1..Len(p) |->
                                     IF p[i] = StrongMarker THEN "strong"
                                     ELSE IF p[i] = EmphasisMarker THEN "emphasis"
                                     ELSE "delete"], w))
             => out = Wrapped(SelectSeq(<<"delete", "emphasis", "strong">>,
                                        LAMBDA t : t \in OpeningMarks(ds)), w)

\* Bold nested outside italic came back with italic outside.
C8_Witness ==
  /\ Returned
  /\ origin = Str(<<"*", "*", "_", "b", "_", "*", "*">>)
  /\ out = Str(<<"_", "*", "*", "b", "*", "*", "_">>)

\* ------------------------------------------------------------------------
\* Properties of slateToMarkdown on the rich documents of the editor
\* ------------------------------------------------------------------------

\* The text of a syntax node.
TextOfMdast(n) == LET cs == CharsOfMdast(n, {}) IN [i \in 1..Len(cs) |-> cs[i][1]]

\* The text of a rich document.
TextOfSlate(n) == LET cs == CharsOfSlate(n) IN [i \in 1..Len(cs) |-> cs[i][1]]

\* Some mark node of the tree holds text that starts or ends with
\* whitespace.
RECURSIVE SpaceInsideMark(_)
SpaceInsideMark(n) ==
  \/ /\ n.type \in MarkTypes
     /\ LET t == TextOfMdast(n)
        IN  t = <<>> \/ IsSpace(t[1]) \/ IsSpace(t[Len(t)])
  \/ \E i \in 1..Len(n.children) : SpaceInsideMark(n.children[i])

\* A string without the delimiters of strong and emphasis.
Undelimited(s) == SelectSeq(s, LAMBDA c : c \notin {Star, Underscore})

\* A paragraph of two text nodes of one leaf each.
TwoLeaves(a, b) ==
  SBlock("root", <<>>, <<>>,
         <<SBlock("paragraph", <<>>, <<>>, <<STextNode(<<a>>), STextNode(<<b>>)>>)>>)

BoldThenPlain == TwoLeaves(Leaf(Str(<<"a", " ">>), {"bold"}), Leaf(Str(<<"a">>), {}))

PlainThenBold == TwoLeaves(Leaf(Str(<<"a">>), {}), Leaf(Str(<<" ", "a">>), {"bold"}))

\* The delimiters are put around the part of a leaf that is not whitespace,
\* and the two documents of the tests are written as the tests expect.
DelimitersHugText ==
  /\ ~SpaceInsideMark(slateToRemark(slate))
  /\ slate = BoldThenPlain => out = Str(<<"*", "*", "a", "*", "*", " ", "a">>)
  /\ slate = PlainThenBold => out = Str(<<"a", " ", "*", "*", "a", "*", "*">>)

\* Every leaf of the rich document carries a mark.
AllMarked(n) == \A t \in TextNodesOf(n) : \A k \in 1..Len(t.leaves) : t.leaves[k].marks # {}

\* C3 as stated: the whitespace of a marked leaf is written outside the
\* delimiters on both sides and no whitespace character of a marked leaf is
\* dropped or duplicated.
C3_NoWhitespaceDropped ==
  pc = "done" =>
    /\ DelimitersHugText
    /\ AllMarked(slate) => Undelimited(out) = TextOfSlate(slate)

\* C3: the whitespace of a marked leaf is written outside the delimiters on
\* both sides and no whitespace character is dropped or duplicated, except
\* that the whitespace at the very end of the document is removed.
C3_WhitespaceOutside ==
  pc = "done" => (DelimitersHugText /\ Undelimited(out) = trimEnd(TextOfSlate(slate)))

\* Bold "a " followed by plain "a" was written as "**a** a".
C3_Witness ==
  /\ pc = "done"
  /\ slate = BoldThenPlain
  /\ out = Str(<<"*", "*", "a", "*", "*", " ", "a">>)

\* ------------------------------------------------------------------------
\* Properties of the component block
\* ------------------------------------------------------------------------

Contains(s, p) == \E i \in 1..(Len(s) - Len(p) + 1) : StartsAt(s, i, p)

\* The component blocks of a document, as markdownToRemark finds them.
RECURSIVE BlocksFrom(_, _)
BlocksFrom(s, i) ==
  IF i > Len(s) THEN {}
  ELSE IF BlockMatchAt(s, i).found
    THEN {[name  |-> BlockMatchAt(s, i).name,
           body  |-> BlockMatchAt(s, i).body,
           start |-> i,
           end   |-> BlockMatchAt(s, i).end]}
         \cup BlocksFrom(s, BlockMatchAt(s, i).end)
  ELSE BlocksFrom(s, i + 1)

Blocks(s) == BlocksFrom(s, 1)

\* "::: name base64(body)"
EncodedForm(e, block) == Fence \o block.name \o <<Space>> \o base64Encode(e, block.body).value

\* The text of a block as written: "::: name\nbody\n:::".
BlockText(s, block) == SubSeq(s, block.start, block.end - 2)

RECURSIVE HasShortcode(_)
HasShortcode(n) ==
  \/ n.type \in {"shortcode", "shortcodeInline"}
  \/ \E i \in 1..Len(n.children) : HasShortcode(n.children[i])

\* C4: the encoded form of a component block of the document is found
\* neither in the syntax tree, nor in the rich document, nor in the string
\* remarkToMarkdown returns.
C4_EncodedFormIsTransient ==
  (pc \in {"slate", "done"}) =>
    \A block \in Blocks(md) :
      /\ ~Contains(TextOfMdast(mdast), EncodedForm(env, block))
      /\ ~Contains(TextOfSlate(slate), EncodedForm(env, block))
      /\ pc = "done" => ~Contains(out, EncodedForm(env, block))

\* C5: process applied to what process returned returns it again.
C5_Idempotent == (pc = "done" /\ pass = 2) => out = first

\* C6: with no plugin for its tag, a component block gives no component
\* node and no error, and its text is in what slateToMarkdown returns.
C6_UnrecognizedTagKept ==
  (registry = {} /\ pass = 1 /\ Blocks(origin) # {}) =>
    /\ pc # "threw"
    /\ (pc \in {"slate", "done"}) => ~HasShortcode(mdast)
    /\ pc = "done" => \A block \in Blocks(origin) : Contains(out, BlockText(origin, block))

\* C7: remarkToMarkdown has no error outcome, and the string it returns
\* does not end with whitespace.
C7_SerializerIsTotal ==
  /\ pc # "threw"
  /\ pc = "done" => (out = <<>> \/ ~IsSpace(out[Len(out)]))

\* ------------------------------------------------------------------------
\* Properties of the entry draft reducer
\* ------------------------------------------------------------------------

PlaceOf(list, id) == CHOOSE i \in 1..Len(list) : list[i].id = id

Ids(list) == {list[i].id : i \in 1..Len(list)}

\* The files of old whose id is not id are in new, as they were and in the
\* order they were in.
OthersKept(old, new, id) ==
  /\ \A i \in 1..Len(old) : old[i].id # id => \E j \in 1..Len(new) : new[j] = old[i]
  /\ \A i, j \in 1..Len(old) :
       (i < j /\ old[i].id # id /\ old[j].id # id)
         => PlaceOf(new, old[i].id) < PlaceOf(new, old[j].id)

\* C10: after a draft creation followed by additions, removals and
\* clearings only, mediaFiles holds at most one file for an id; an addition
\* leaves the payload last, no other file with its id, and the other files
\* in their order; a removal leaves no file with the id and the other files
\* in their order; and without a mediaFiles key both leave the state as it
\* is.
C10_OneFilePerId ==
  [][ /\ has(draft', "mediaFiles") =>
           \A i, j \in 1..Len(draft'.mediaFiles) :
             draft'.mediaFiles[i].id = draft'.mediaFiles[j].id => i = j
      /\ (last'.type \in {"ADD_DRAFT_ENTRY_MEDIA_FILE", "REMOVE_DRAFT_ENTRY_MEDIA_FILE"}
          /\ ~has(draft, "mediaFiles")) => draft' = draft
      /\ (last'.type = "ADD_DRAFT_ENTRY_MEDIA_FILE" /\ has(draft, "mediaFiles")) =>
           /\ draft'.mediaFiles[Len(draft'.mediaFiles)] = last'.payload
           /\ Ids(draft'.mediaFiles) = Ids(draft.mediaFiles) \cup {last'.payload.id}
           /\ OthersKept(draft.mediaFiles, draft'.mediaFiles, last'.payload.id)
      /\ (last'.type = "REMOVE_DRAFT_ENTRY_MEDIA_FILE" /\ has(draft, "mediaFiles")) =>
           /\ Ids(draft'.mediaFiles) = Ids(draft.mediaFiles) \ {last'.payload.id}
           /\ OthersKept(draft.mediaFiles, draft'.mediaFiles, last'.payload.id)
    ]_vars

\* A file was added whose id another file of the list had: the new file is
\* last and the old one is gone.
C10_Witness ==
  /\ last = Action("ADD_DRAFT_ENTRY_MEDIA_FILE", File(1, "b"))
  /\ has(draft, "mediaFiles")
  /\ draft.mediaFiles = <<File(2, "a"), File(1, "b")>>

====
